---- MODULE Spec2Model ----
(***************************************************************************)
(* A model of tpu_pod_launcher: the command executor, the parallel fan-out *)
(* over the hosts of a TPU pod, the host resolver, the remote access layer *)
(* (ssh / scp / rsync command lines) and the tmux session lifecycle.       *)
(*                                                                         *)
(* Text is a sequence of characters.  A character is a one-character       *)
(* string, or an atom standing for a run of ordinary word characters       *)
(* ("tmux", "ip1", "-d").  The shell metacharacters are single characters. *)
(***************************************************************************)
EXTENDS Integers, Sequences, FiniteSets, TLC

\* ------------------------------------------------------------------ text

None == "None"

SQ == "'"
DQ == "\""
NL == "\n"
SP == " "

\* str.strip() / str.split('\n') see blanks and newlines as whitespace
Whitespace == {SP, NL}

\* characters outside shlex's safe set [\w@%+=:,./-] that the model uses
ShellMeta == {SP, NL, SQ, DQ, "$", ";", "&&", "~"}

Last(s) == s[Len(s)]

Front(s) == SubSeq(s, 1, Len(s) - 1)

RECURSIVE LStrip(_)
LStrip(s) ==
    IF s = <<>> THEN s
    ELSE IF Head(s) \in Whitespace THEN LStrip(Tail(s)) ELSE s

RECURSIVE RStrip(_)
RStrip(s) ==
    IF s = <<>> THEN s
    ELSE IF Last(s) \in Whitespace THEN RStrip(Front(s)) ELSE s

\* str.strip()
Strip(s) == RStrip(LStrip(s))

\* the concatenation of the texts ss[lo], ..., ss[hi]
RECURSIVE Concat(_, _, _)
Concat(ss, lo, hi) ==
    IF lo > hi THEN <<>>
    ELSE IF lo = hi THEN ss[lo]
    ELSE LET mid == (lo + hi) \div 2
         IN  Concat(ss, lo, mid) \o Concat(ss, mid + 1, hi)

\* str.split(sep): the pieces between occurrences of sep; never empty
Split(s, sep) ==
    LET at     == {i \in 1..Len(s) : s[i] = sep}
        nth(k) == IF k = 0 THEN 0
                  ELSE IF k > Cardinality(at) THEN Len(s) + 1
                  ELSE CHOOSE i \in at : Cardinality({j \in at : j < i}) = k - 1
    IN  [k \in 1..(Cardinality(at) + 1) |->
            SubSeq(s, nth(k - 1) + 1, nth(k) - 1)]

\* sep.join(pieces)
Join(pieces, sep) ==
    Concat([i \in 1..Len(pieces) |->
               IF i = 1 THEN pieces[i] ELSE sep \o pieces[i]], 1, Len(pieces))

\* str.replace(old, new) for a one-character old
Replace(s, old, new) ==
    Concat([i \in 1..Len(s) |-> IF s[i] = old THEN new ELSE <<s[i]>>], 1, Len(s))

\* shlex.quote: '' for the empty string, the string itself when every
\* character is safe, else single-quoted with ' written as '"'"'
ShlexQuote(s) ==
    IF s = <<>> THEN <<SQ, SQ>>
    ELSE IF \A i \in 1..Len(s) : s[i] \notin ShellMeta THEN s
    ELSE <<SQ>> \o Replace(s, SQ, <<SQ, DQ, SQ, DQ, SQ>>) \o <<SQ>>

\* ------------------------------------------------------------- the shell

\* What `sh -c text` makes of a command line: the simple commands it runs,
\* each a sequence of words, each word the text left after quote removal.
\* Outside quotes a blank ends a word and a newline, ';' or '&&' ends a
\* command (the command after '&&' starts with the word AndIf);
\* '...' is literal; in "..." and outside quotes $name is replaced by the
\* variable's value (the character EnvValue).  The shell reads and runs one
\* line at a time: an unterminated quote is a syntax error that loses the
\* line it starts on and everything after it.
EnvValue == "<env>"

AndIf == <<"&&">>

FlushWord(words, word, inword) == IF inword THEN Append(words, word) ELSE words

FlushCmd(cmds, words) == IF words = <<>> THEN cmds ELSE Append(cmds, words)

\* the scanner's state: the quoting mode ("n" none, "s" in '...', "d" in
\* "..."), the word, command and line being read, the commands of the lines
\* read, whether a '$' awaits its name, whether a name is being skipped
ShStart ==
    [mode |-> "n", word |-> <<>>, inword |-> FALSE, words |-> <<>>,
     line |-> <<>>, done |-> <<>>, dollar |-> FALSE, invar |-> FALSE]

\* one character that is not part of a $name
ShPlain(st, c) ==
    IF st.mode = "s" THEN
        IF c = SQ THEN [st EXCEPT !.mode = "n"]
        ELSE [st EXCEPT !.word = Append(@, c)]
    ELSE IF c = "$" THEN [st EXCEPT !.dollar = TRUE, !.inword = TRUE]
    ELSE IF st.mode = "d" THEN
        IF c = DQ THEN [st EXCEPT !.mode = "n"]
        ELSE [st EXCEPT !.word = Append(@, c)]
    ELSE IF c = SQ THEN [st EXCEPT !.mode = "s", !.inword = TRUE]
    ELSE IF c = DQ THEN [st EXCEPT !.mode = "d", !.inword = TRUE]
    ELSE IF c = SP THEN
        [st EXCEPT !.words = FlushWord(@, st.word, st.inword),
                   !.word = <<>>, !.inword = FALSE]
    ELSE IF c = ";" THEN
        [st EXCEPT !.line = FlushCmd(@, FlushWord(st.words, st.word, st.inword)),
                   !.words = <<>>, !.word = <<>>, !.inword = FALSE]
    ELSE IF c = "&&" THEN
        [st EXCEPT !.line = FlushCmd(@, FlushWord(st.words, st.word, st.inword)),
                   !.words = <<AndIf>>, !.word = <<>>, !.inword = FALSE]
    ELSE IF c = NL THEN
        [st EXCEPT !.done = @ \o FlushCmd(st.line,
                                 FlushWord(st.words, st.word, st.inword)),
                   !.line = <<>>, !.words = <<>>, !.word = <<>>,
                   !.inword = FALSE]
    ELSE [st EXCEPT !.word = Append(@, c), !.inword = TRUE]

ShStep(st, c) ==
    IF st.invar THEN
        IF c \notin ShellMeta THEN st
        ELSE ShPlain([st EXCEPT !.invar = FALSE], c)
    ELSE IF st.dollar THEN
        IF c \notin ShellMeta
        THEN [st EXCEPT !.dollar = FALSE, !.invar = TRUE,
                        !.word = Append(@, EnvValue)]
        ELSE ShPlain([st EXCEPT !.dollar = FALSE, !.word = Append(@, "$")], c)
    ELSE ShPlain(st, c)

RECURSIVE ShScan(_, _, _, _)
ShScan(s, lo, hi, st) ==
    IF lo > hi THEN st
    ELSE IF lo = hi THEN ShStep(st, s[lo])
    ELSE LET mid  == (lo + hi) \div 2
             left == ShScan(s, lo, mid, st)
         IN  \* the test has the left half read before the right half starts
             IF left.mode = "" THEN left ELSE ShScan(s, mid + 1, hi, left)

ShParse(s) ==
    LET st  == ShScan(s, 1, Len(s), ShStart)
        end == IF st.dollar THEN [st EXCEPT !.word = Append(@, "$")] ELSE st
    IN  IF end.mode # "n" THEN [ok |-> FALSE, cmds |-> end.done]
        ELSE [ok |-> TRUE,
              cmds |-> end.done \o FlushCmd(end.line,
                           FlushWord(end.words, end.word, end.inword))]

\* -------------------------------------------------------------- dedent

IsBlank(line) == \A i \in 1..Len(line) : line[i] = SP

RECURSIVE LeadingBlanks(_)
LeadingBlanks(line) ==
    IF line # <<>> /\ Head(line) = SP THEN 1 + LeadingBlanks(Tail(line)) ELSE 0

Min(S) == CHOOSE x \in S : \A y \in S : x <= y

\* textwrap.dedent: lines holding only blanks become empty, and the leading
\* blanks common to all the other lines are removed from every line
Dedent(text) ==
    LET lines  == Split(text, NL)
        clean  == [i \in 1..Len(lines) |->
                     IF IsBlank(lines[i]) THEN <<>> ELSE lines[i]]
        full   == {i \in 1..Len(clean) : clean[i] # <<>>}
        margin == IF full = {} THEN 0
                  ELSE Min({LeadingBlanks(clean[i]) : i \in full})
        cut    == [i \in 1..Len(clean) |->
                     IF clean[i] = <<>> THEN <<>>
                     ELSE SubSeq(clean[i], margin + 1, Len(clean[i]))]
    IN  Join(cut, <<NL>>)

\* ------------------------------------------------ the remote access layer

\* the indentation of the lines of launch's command template
Indent == <<SP, SP, SP, SP, SP, SP, SP, SP>>

\* the client of the example project: a key, no strict host key checking,
\* known hosts discarded
key_path == <<"key">>

user == "user"

strict_host_key_checking == FALSE

known_hosts_file == <<"/dev/null">>

working_dir == <<"~", "/wd">>

\* the project's auxiliary kill commands, in their configured order
kill_commands == << <<"pkill", SP, "-9", SP, "python">>, <<"rm", SP, "lock">> >>

\* the project's (local path, remote path) pairs
copy_dirs == << <<"src/", "~/dst">> >>

copy_excludes == << <<".git">> >>

StrictStr ==
    IF ~strict_host_key_checking THEN <<"-o", SP, "StrictHostKeyChecking=no">>
    ELSE <<>>

KnownHostsStr ==
    IF known_hosts_file # None
    THEN <<"-o", SP, "UserKnownHostsFile=">> \o known_hosts_file ELSE <<>>

KeyPathStr == IF key_path # None THEN <<"-i", SP>> \o key_path ELSE <<>>

\* launcher.py's TPUPodClient.ssh: the command line for one host
LauncherSshCommand(host, command) ==
    <<"ssh", SP>> \o KeyPathStr \o <<SP>> \o host
        \o <<SP, DQ>> \o command \o <<DQ>>

\* TPUPodClient.ssh: the command line for one host
SshCommand(host, command) ==
    <<"ssh", SP>> \o StrictStr \o <<SP>> \o KnownHostsStr \o <<SP>>
        \o KeyPathStr \o <<SP>> \o host \o <<SP>> \o ShlexQuote(command)

\* TPUPodClient.scp: the command line for one host
ScpCommand(host, local_path, remote_path) ==
    <<"scp", SP>> \o StrictStr \o <<SP>> \o KnownHostsStr \o <<SP>>
        \o KeyPathStr \o <<SP, "-r", SP, DQ, local_path, DQ, SP>>
        \o host \o <<":", DQ, remote_path, DQ>>

RECURSIVE ExcludeFlags(_)
ExcludeFlags(excludes) ==
    IF excludes = <<>> THEN <<>>
    ELSE <<"--exclude=">> \o Head(excludes)
         \o (IF Len(excludes) > 1 THEN <<SP>> ELSE <<>>)
         \o ExcludeFlags(Tail(excludes))

\* TPUPodClient.copy: the rsync command line for one host
RsyncCommand(host, local_path, remote_path, excludes) ==
    <<"rsync", SP, "-avPI", SP, "-e", SP, DQ, "ssh", SP>> \o StrictStr
        \o <<SP>> \o KnownHostsStr \o <<SP>> \o KeyPathStr \o <<DQ, SP>>
        \o ExcludeFlags(excludes) \o <<SP, DQ, local_path, DQ, SP>>
        \o host \o <<":", DQ, remote_path, DQ>>

\* TPUPodProject.ssh: every project command starts in the working directory
ProjectSshCommand(command) == <<"cd", SP>> \o working_dir \o <<NL>> \o command

\* launch that always names the session 'launch'
LaunchCommandDefaultName(command, window_name) ==
    LET inner_command == <<"cd", SP>> \o working_dir \o <<NL>> \o command
    IN  Strip(Dedent(
            Indent \o <<"tmux", SP, "new", SP, "-d", SP, "-s", SP, "launch", NL>>
            \o Indent \o <<"tmux", SP, "send", SP>>
                \o ShlexQuote(inner_command) \o <<SP, "C-m", NL>>
            \o Indent))

\* TPUPodProject.launch: the command handed to TPUPodProject.ssh
LaunchCommand(command, window_name) ==
    LET inner_command == <<"cd", SP>> \o working_dir \o <<NL>> \o command
    IN  Strip(Dedent(
            Indent \o <<"tmux", SP, "new", SP, "-d", SP, "-s", SP>>
                \o window_name \o <<NL>>
            \o Indent \o <<"tmux", SP, "send", SP>>
                \o ShlexQuote(inner_command) \o <<SP, "C-m", NL>>
            \o Indent))

\* TPUPodProject.check: the command handed to TPUPodProject.ssh
CheckCommand(window_name) ==
    <<"tmux", SP, "capture-pane", SP, "-pt", SP>> \o window_name

\* stop whose commands are joined by ' && '
StopCommandAndIf(window_name, kills) ==
    Join(<< <<"tmux", SP, "kill-session", SP, "-t", SP>> \o window_name >>
             \o kills,
         <<SP, "&&", SP>>)

\* TPUPodProject.stop: the kill-session command first, then the auxiliary
\* kill commands, joined by '; '
StopCommand(window_name, kills) ==
    Join(<< <<"tmux", SP, "kill-session", SP, "-t", SP>> \o window_name >>
             \o kills,
         <<";", SP>>)

\* ------------------------------------------------------- the remote host

\* A host's tmux server: its sessions, least recently active first; each
\* session has a name and the keys last sent to it.  What tmux does:
\*   new -d -s NAME         creates NAME, now the most recently active
\*                          session; fails when NAME exists
\*   send KEY...            no -t: the keys go to the most recently active
\*                          session; fails when there is none
\*   kill-session -t NAME   removes NAME; fails when NAME is absent
\*   capture-pane -pt NAME  prints NAME's pane; fails when NAME is absent
\* Every other command (cd, a kill command, a user command) leaves tmux
\* alone.  The shell goes on to the next command whatever the status,
\* except that a command after '&&' runs only when the one before succeeded.
HasSession(sess, name) == \E i \in 1..Len(sess) : sess[i].name = name

SessionOf(sess, name) == sess[CHOOSE i \in 1..Len(sess) : sess[i].name = name]

RECURSIVE Without(_, _)
Without(sess, name) ==
    IF sess = <<>> THEN <<>>
    ELSE IF Head(sess).name = name THEN Without(Tail(sess), name)
    ELSE <<Head(sess)>> \o Without(Tail(sess), name)

\* the word following the flag among the words w, <<>> when there is none
ArgAfter(w, flag) ==
    IF \E i \in 1..(Len(w) - 1) : w[i] = flag
    THEN w[1 + CHOOSE i \in 1..(Len(w) - 1) : w[i] = flag]
    ELSE <<>>

\* one simple command w on a host in state st = [sess, log, out]
RunRemote(w, st) ==
    LET sub  == IF Len(w) >= 2 THEN w[2] ELSE <<>>
        done(sess, ok, out) ==
            [sess |-> sess,
             log  |-> Append(st.log, [cmd |-> Join(w, <<SP>>), ok |-> ok]),
             out  |-> st.out \o out]
    IN  IF w[1] # <<"tmux">> THEN done(st.sess, TRUE, <<>>)
        ELSE IF sub = <<"new">> THEN
            LET name == ArgAfter(w, <<"-s">>) IN
            IF HasSession(st.sess, name)
            THEN done(st.sess, FALSE, <<"duplicate session", NL>>)
            ELSE done(Append(st.sess, [name |-> name, keys |-> <<>>]), TRUE, <<>>)
        ELSE IF sub = <<"send">> THEN
            IF st.sess = <<>> THEN done(st.sess, FALSE, <<"no server", NL>>)
            ELSE done([st.sess EXCEPT ![Len(st.sess)].keys = SubSeq(w, 3, Len(w))],
                      TRUE, <<>>)
        ELSE IF sub = <<"kill-session">> THEN
            LET name == ArgAfter(w, <<"-t">>) IN
            IF HasSession(st.sess, name)
            THEN done(Without(st.sess, name), TRUE, <<>>)
            ELSE done(st.sess, FALSE, <<"no session", NL>>)
        ELSE IF sub = <<"capture-pane">> THEN
            LET name == ArgAfter(w, <<"-pt">>) IN
            IF HasSession(st.sess, name)
            THEN done(st.sess, TRUE,
                      Join(SessionOf(st.sess, name).keys, <<SP>>) \o <<NL>>)
            ELSE done(st.sess, FALSE, <<"no session", NL>>)
        ELSE done(st.sess, FALSE, <<"unknown command", NL>>)

RunNext(w, st) ==
    IF w[1] # AndIf THEN RunRemote(w, st)
    ELSE IF Len(w) = 1 \/ (st.log # <<>> /\ ~Last(st.log).ok) THEN st
    ELSE RunRemote(Tail(w), st)

RECURSIVE RunAll(_, _)
RunAll(cmds, st) ==
    IF cmds = <<>> THEN st ELSE RunAll(Tail(cmds), RunNext(Head(cmds), st))

\* the remote shell's result: the host's state after the commands, their
\* output, and the exit status, that of the last command run
ShellResult(st, ok) ==
    [sess |-> st.sess,
     log  |-> st.log,
     out  |-> IF ok THEN st.out ELSE st.out \o <<"syntax error", NL>>,
     exit |-> IF ~ok THEN 2
              ELSE IF st.log = <<>> \/ Last(st.log).ok THEN 0 ELSE 1]

RunParsed(parsed, sess) ==
    ShellResult(RunAll(parsed.cmds, [sess |-> sess, log |-> <<>>, out |-> <<>>]),
                parsed.ok)

\* the remote shell given the string ssh delivers
RemoteShell(sess, delivered) == RunParsed(ShParse(delivered), sess)

\* ssh's reading of its argument words: options, then the destination,
\* then the command, whose words it joins with blanks
RECURSIVE SkipOptions(_)
SkipOptions(w) ==
    IF Len(w) >= 2 /\ w[1] \in {<<"-o">>, <<"-i">>} THEN SkipOptions(Tail(Tail(w)))
    ELSE w

SshDestination(w) ==
    LET rest == SkipOptions(Tail(w)) IN IF rest = <<>> THEN <<>> ELSE rest[1]

SshDelivered(w) ==
    LET rest == SkipOptions(Tail(w)) IN
    IF Len(rest) < 2 THEN <<>> ELSE Join(Tail(rest), <<SP>>)

\* rsync's and scp's destination host: the last word up to its ':'
CopyDestination(w) == Split(Last(w), ":")[1]

\* ------------------------------------------------------------ the bounds

\* largest copy_retries a caller passes to copy_launch
MaxRetries == 2

\* the addresses of a pod's workers, in the order describe lists them
AllIPs == <<"ip1", "ip2">>

IPs == {AllIPs[i] : i \in 1..Len(AllIPs)}

\* the session names callers use; "launch" is the default window_name
SessionNames == {<<"launch">>, <<"job2">>}

default_window_name == <<"launch">>

\* copy_launch's default copy_retries
default_copy_retries == 2

\* user commands: a plain one, one with a double quote, a '$' and a
\* newline, one whose every line is indented
UserCommands ==
    { <<"a">>, <<"a", DQ, "$", "x", NL, "b", DQ>>, <<SP, "a">> }

\* the commands given to copy_launch
CopyLaunchCommands == { <<"a">> }

\* launch scripts: without and with a comment line
Scripts == { <<"a", NL>>, <<"#", "c", NL, "a", NL, SP, "#", "d", NL>> }

ProjectNames == {"p1", "p2"}

VARIABLES
    pod,                 \* the pod: whether it exists, its workers' addresses
    tmux,                \* per address: the host's tmux sessions
    received,            \* per address: the string last given to its shell
    rlog,                \* per address: the commands that shell then ran
    dirs,                \* per address: the remote paths synced or copied
    launch_config_path,  \* create_cli's launch_config_path
    config,              \* create_cli's config: its project_name
    configFile,          \* the content of the file at launch_config_path
    op,                  \* the call in progress, or the last one
    pc,                  \* where the call is: idle, call, copy, stop, sync, launch
    outcome,             \* how the last call ended: none, returned, raised
    stage,               \* the multi-host call: none, resolve, start, join
    hosts,               \* list_ips' result
    commands,            \* the command line of each host
    procs,               \* per unit: the subprocess run_command created
    results,             \* run_commands_parallel's results
    unit,                \* per unit: new, running, done, died
    started,             \* threads started by the start loop
    joined,              \* threads joined by the join loop
    ret,                 \* the mapping the last multi-host call returned
    attempt,             \* copy_launch: sync attempts completed
    dirIdx,              \* TPUPodProject.copy: the copy_dirs pair at hand
    copy_result,         \* TPUPodProject.copy's results: each mapping's hosts
    copy_results,        \* copy_launch's copy_results
    events               \* the phases of the call, as they happened

vars == <<pod, tmux, received, rlog, dirs, launch_config_path, config,
          configFile, op, pc, outcome, stage, hosts, commands, procs,
          results, unit, started, joined, ret, attempt, dirIdx, copy_result,
          copy_results, events>>

envVars == <<pod>>

hostVars == <<tmux, received, rlog, dirs>>

cfgVars == <<launch_config_path, config, configFile>>

fanVars == <<hosts, commands, procs, results, unit, started, joined>>

loopVars == <<attempt, dirIdx, copy_result, copy_results>>

\* ----------------------------------------------------- command executor

\* Popen(command, shell=True, stdout=PIPE, stderr=STDOUT) and communicate():
\* stderr is merged into stdout, so the second component is always None
Communicate(p) == <<p.stdout, None>>

\* run_command made to fail on a nonzero exit status
RunCommandChecked(p) ==
    IF ~p.invoked \/ p.exit # 0 THEN [raised |-> TRUE, result |-> None]
    ELSE [raised |-> FALSE, result |-> p.stdout]

\* run_command: raises when Popen cannot create the subprocess or when
\* communicate() hands back an error stream, else returns the decoded output
RunCommand(p) ==
    IF ~p.invoked THEN [raised |-> TRUE, result |-> None]
    ELSE LET oe == Communicate(p)
         IN  IF oe[2] # None THEN [raised |-> TRUE, result |-> None]
             ELSE [raised |-> FALSE, result |-> oe[1]]

NotInvoked == [invoked |-> FALSE, exit |-> 0, stdout |-> <<>>]

Exited(code, out) == [invoked |-> TRUE, exit |-> code, stdout |-> out]

\* ---------------------------------------------------------- host resolver

\* a pod that does not exist, or one with none, some or all of the workers
Pods ==
    {[exists |-> FALSE, ips |-> <<>>]}
        \cup {[exists |-> TRUE, ips |-> SubSeq(AllIPs, 1, k)] :
                 k \in 0..Len(AllIPs)}

\* what `gcloud ... describe | grep -oP 'externalIp: \K(.+)$'` prints: one
\* line per external address; gcloud's error message when the pod does not
\* exist (stderr is merged into the output); grep exits 1 without a match
Describe ==
    IF ~pod.exists THEN Exited(1, <<"ERROR: NOT_FOUND", NL>>)
    ELSE Exited(IF pod.ips = <<>> THEN 1 ELSE 0,
                Concat([i \in 1..Len(pod.ips) |-> <<pod.ips[i], NL>>],
                       1, Len(pod.ips)))

\* list_ips, given run_command's result
ListIpsOf(output) ==
    LET ips == Split(Strip(output), NL)
    IN  IF user # None
        THEN [i \in 1..Len(ips) |-> <<user, "@">> \o ips[i]]
        ELSE ips

\* the address a destination names, None when it names no worker of the pod
AddressOf(dest) ==
    LET ip == IF dest = <<>> THEN None ELSE Last(dest)
    IN  IF /\ Len(dest) \in {1, 3}
           /\ Len(dest) = 3 => dest[2] = "@"
           /\ \E i \in 1..Len(pod.ips) : pod.ips[i] = ip
        THEN ip ELSE None

\* ---------------------------------------------------- one local command

\* What running one command line of a fan-out does.  `up` says whether the
\* transport reaches the host.  The result: the subprocess, the address
\* reached (None when none was), and the host's new state.
Unreached(code, out) ==
    [ip |-> None, sess |-> <<>>, log |-> <<>>, text |-> <<>>, path |-> None,
     proc |-> Exited(code, out)]

\* ssh reached the host ip: its shell ran the delivered string
SshReached(ip, st, delivered) ==
    [ip |-> ip, sess |-> st.sess, log |-> st.log, text |-> delivered,
     path |-> None, proc |-> Exited(st.exit, st.out)]

RunSsh(ip, delivered) ==
    IF ip = None THEN Unreached(255, <<"connection failed", NL>>)
    ELSE SshReached(ip, RemoteShell(tmux[ip], delivered), delivered)

\* rsync or scp reached the host ip: the remote path is written
RunCopy(ip, path) ==
    IF ip = None THEN Unreached(255, <<"connection failed", NL>>)
    ELSE [ip |-> ip, sess |-> tmux[ip], log |-> rlog[ip],
          text |-> received[ip], path |-> path,
          proc |-> Exited(0, <<"sent", NL>>)]

Reach(dest, up) == IF up THEN AddressOf(dest) ELSE None

\* the program named by the first word of the words w
RunProgram(w, up) ==
    IF w[1] = <<"ssh">>
    THEN RunSsh(Reach(SshDestination(w), up), SshDelivered(w))
    ELSE RunCopy(Reach(CopyDestination(w), up), Split(Last(w), ":")[2])

\* the local shell runs the first command of the line
RunLine(parsed, up) ==
    IF parsed.cmds = <<>> THEN Unreached(2, <<"sh: syntax error", NL>>)
    ELSE RunProgram(parsed.cmds[1], up)

LocalRun(line, up) == RunLine(ShParse(line), up)

\* -------------------------------------------------------- the CLI's launch

StartsWith(s, c) == s # <<>> /\ Head(s) = c

\* create_cli.cli_main.launch: the script without its comment lines
StripComments(text, key) ==
    LET keep(l) == ~StartsWith(Strip(l), key)
    IN  Strip(Join(SelectSeq(Split(text, NL), keep), <<NL>>))

\* create_cli: the config is the file's when there is a path and a file
LoadConfig(path, file) == IF path # None /\ file # None THEN file ELSE None

\* set_project that stores the name before it looks at the path
SetProjectOfEager(path, cfg, file, name) ==
    IF path = None THEN [raised |-> TRUE, config |-> name, file |-> file]
    ELSE [raised |-> FALSE, config |-> name, file |-> name]

\* create_cli.set_project, given the path, the config and the file
SetProjectOf(path, cfg, file, name) ==
    IF path = None THEN [raised |-> TRUE, config |-> cfg, file |-> file]
    ELSE [raised |-> FALSE, config |-> name, file |-> name]

\* ------------------------------------------------------------ the calls

NoOp ==
    [name |-> "none", command |-> <<>>, window_name |-> <<>>,
     copy_retries |-> 0, script |-> <<>>]

\* a loop that stops one round short
RangeDoneEarly(i, n) == i + 1 >= n

\* for _ in range(n): the loop is over once it has run n times
RangeDone(i, n) == i >= n

\* the command the call at hand gives to TPUPodProject.ssh
ProjectCommand ==
    CASE pc = "ssh" -> op.command
      [] pc = "launch" -> LaunchCommand(op.command, op.window_name)
      [] pc = "check" -> CheckCommand(op.window_name)
      [] pc = "stop" -> StopCommand(op.window_name, kill_commands)

\* the command line the multi-host call at hand builds for a host
CommandFor(host) ==
    CASE pc = "scp" -> ScpCommand(host, "key.json", "~/.config/")
      [] pc = "sync" ->
            RsyncCommand(host, copy_dirs[dirIdx][1], copy_dirs[dirIdx][2],
                         copy_excludes)
      [] pc = "launcher_ssh" ->
            LauncherSshCommand(host, ProjectSshCommand(op.command))
      [] OTHER -> SshCommand(host, ProjectSshCommand(ProjectCommand))

\* a mapping that keeps only the hosts whose command left a result
ZipDictOfResults(hs, rs) ==
    LET n == IF Len(hs) < Len(rs) THEN Len(hs) ELSE Len(rs)
        kept == {i \in 1..n : rs[i] # None}
    IN  [h \in {hs[i] : i \in kept} |->
            rs[CHOOSE i \in kept : hs[i] = h]]

\* {host: result for host, result in zip(hosts, results)}
ZipDict(hs, rs) ==
    LET n == IF Len(hs) <= Len(rs) THEN Len(hs) ELSE Len(rs)
    IN  [h \in {hs[i] : i \in 1..n} |->
            rs[CHOOSE i \in 1..n :
                  hs[i] = h /\ \A j \in 1..n : hs[j] = h => j <= i]]

\* the session an earlier launch of the command "a" leaves on a host
Earlier(window_name) ==
    [name |-> window_name,
     keys |-> << <<"cd", SP>> \o working_dir \o <<NL, "a">>, <<"C-m">> >>]

\* what the hosts hold when the caller starts: nothing, the session of an
\* earlier launch, or that and the later session of another job
Prestates ==
    { <<>>,
      <<Earlier(<<"launch">>)>>,
      <<Earlier(<<"launch">>), Earlier(<<"job2">>)>> }

Init ==
    /\ pod \in Pods
    /\ tmux \in {[ip \in IPs |-> s] : s \in Prestates}
    /\ received = [ip \in IPs |-> None]
    /\ rlog = [ip \in IPs |-> <<>>]
    /\ dirs = [ip \in IPs |-> {}]
    /\ launch_config_path = None
    /\ config = None
    /\ configFile = None
    /\ op = NoOp
    /\ pc = "idle"
    /\ outcome = "none"
    /\ stage = "none"
    /\ hosts = <<>>
    /\ commands = <<>>
    /\ procs = <<>>
    /\ results = <<>>
    /\ unit = <<>>
    /\ started = 0
    /\ joined = 0
    /\ ret = None
    /\ attempt = 0
    /\ dirIdx = 1
    /\ copy_result = <<>>
    /\ copy_results = <<>>
    /\ events = <<>>

\* a caller starts a call on the project; a behaviour follows one call
Begin(o, p) ==
    /\ pc = "idle"
    /\ outcome = "none"
    /\ op' = o
    /\ pc' = p
    /\ stage' = "resolve"
    /\ UNCHANGED <<envVars, hostVars, cfgVars, outcome, fanVars, ret,
                   loopVars, events>>

CallSsh ==
    \E c \in UserCommands :
        Begin([NoOp EXCEPT !.name = "ssh", !.command = c], "ssh")

\* ssh of the TPUPodProject of launcher.py
CallLauncherSsh ==
    \E c \in UserCommands :
        Begin([NoOp EXCEPT !.name = "launcher_ssh", !.command = c],
              "launcher_ssh")

CallScp == Begin([NoOp EXCEPT !.name = "scp"], "scp")

CallCopy == Begin([NoOp EXCEPT !.name = "copy"], "sync")

CallLaunch ==
    \E c \in UserCommands, w \in SessionNames :
        Begin([NoOp EXCEPT !.name = "launch", !.command = c,
                           !.window_name = w], "launch")

CallCopyLaunch ==
    \E c \in CopyLaunchCommands, w \in SessionNames, r \in 0..MaxRetries :
        Begin([NoOp EXCEPT !.name = "copy_launch", !.command = c,
                           !.window_name = w, !.copy_retries = r],
              IF RangeDone(0, r) THEN "launch" ELSE "sync")

CallCheck ==
    \E w \in SessionNames :
        Begin([NoOp EXCEPT !.name = "check", !.window_name = w], "check")

CallStop ==
    \E w \in SessionNames :
        Begin([NoOp EXCEPT !.name = "stop", !.window_name = w], "stop")

\* the CLI's launch without its project.stop()
CliLaunchWithoutStop ==
    \E s \in Scripts :
        Begin([NoOp EXCEPT !.name = "cli_launch", !.script = s,
                           !.command = StripComments(s, "#"),
                           !.window_name = default_window_name,
                           !.copy_retries = default_copy_retries], "sync")

\* the CLI's launch: project.stop(), the script read, project.copy_launch
CliLaunch ==
    \E s \in Scripts :
        Begin([NoOp EXCEPT !.name = "cli_launch", !.script = s,
                           !.window_name = default_window_name,
                           !.copy_retries = default_copy_retries], "stop")

\* the CLI's set_project, each time in a process of its own: create_cli
\* loads the config, set_project runs.  (set_project and the multi-host
\* calls share no state, so the runs of set_project are followed on their
\* own.)
SetProject ==
    \E path \in {None, "launch.json"}, name \in ProjectNames :
        LET r == SetProjectOf(path, LoadConfig(path, configFile), configFile, name)
        IN  /\ pc = "idle"
            /\ outcome = "none" \/ op.name = "set_project"
            /\ op' = [NoOp EXCEPT !.name = "set_project", !.command = <<name>>]
            /\ outcome' = IF r.raised THEN "raised" ELSE "returned"
            /\ launch_config_path' = path
            /\ config' = r.config
            /\ configFile' = r.file
            /\ UNCHANGED <<envVars, hostVars, pc, stage, fanVars, ret,
                           loopVars, events>>

\* the call ends
Finish(how) ==
    /\ pc' = "idle"
    /\ outcome' = how
    /\ stage' = "none"

\* list_ips in the calling thread, then one command line per host
ListIps ==
    /\ stage = "resolve"
    /\ \E invoked \in BOOLEAN :
         LET r == RunCommand(IF invoked THEN Describe ELSE NotInvoked)
             h == ListIpsOf(r.result)
         IN  IF r.raised
             THEN /\ Finish("raised")
                  /\ UNCHANGED <<fanVars, events>>
             ELSE /\ hosts' = h
                  /\ commands' = [i \in 1..Len(h) |-> CommandFor(h[i])]
                  /\ procs' = [i \in 1..Len(h) |-> None]
                  /\ results' = [i \in 1..Len(h) |-> None]
                  /\ unit' = [i \in 1..Len(h) |-> "new"]
                  /\ started' = 0
                  /\ joined' = 0
                  /\ stage' = "start"
                  /\ events' = Append(events, pc)
                  /\ UNCHANGED <<pc, outcome>>
    /\ UNCHANGED <<envVars, hostVars, cfgVars, op, ret, loopVars>>

\* run_commands_parallel's first loop: thread.start()
StartUnit ==
    /\ stage = "start"
    /\ started < Len(commands)
    /\ unit' = [unit EXCEPT ![started + 1] = "running"]
    /\ started' = started + 1
    /\ stage' = IF started + 1 = Len(commands) THEN "join" ELSE "start"
    /\ UNCHANGED <<envVars, hostVars, cfgVars, op, pc, outcome, hosts,
                   commands, procs, results, joined, ret, loopVars, events>>

\* a slot chosen by the order in which the units end
SlotByCompletion(index) ==
    1 + Cardinality({j \in 1..Len(unit) : unit[j] = "done"})

\* results[index] = ...: the slot the unit given index writes
Slot(index) == index

\* a thread: _run_command(command, index)
UnitRun(i) ==
    /\ unit[i] = "running"
    /\ \E invoked \in BOOLEAN, up \in BOOLEAN :
         LET run == LocalRun(commands[i], up)
             p   == IF invoked THEN run.proc ELSE NotInvoked
             r   == RunCommand(p)
         IN  /\ procs' = [procs EXCEPT ![i] = p]
             /\ IF r.raised
                THEN /\ unit' = [unit EXCEPT ![i] = "died"]
                     /\ UNCHANGED results
                ELSE /\ unit' = [unit EXCEPT ![i] = "done"]
                     /\ results' = [results EXCEPT ![Slot(i)] = r.result]
             /\ IF invoked /\ run.ip # None
                THEN /\ tmux' = [tmux EXCEPT ![run.ip] = run.sess]
                     /\ rlog' = [rlog EXCEPT ![run.ip] = run.log]
                     /\ received' = [received EXCEPT ![run.ip] = run.text]
                     /\ dirs' = IF run.path = None THEN dirs
                                ELSE [dirs EXCEPT ![run.ip] = @ \cup {run.path}]
                ELSE UNCHANGED hostVars
    /\ UNCHANGED <<envVars, cfgVars, op, pc, outcome, stage, hosts,
                   commands, started, joined, ret, loopVars, events>>

\* a join that does not wait for the thread to end
JoinUnitWithoutWaiting ==
    /\ stage = "join"
    /\ joined < Len(commands)
    /\ joined' = joined + 1
    /\ UNCHANGED <<envVars, hostVars, cfgVars, op, pc, outcome, stage,
                   hosts, commands, procs, results, unit, started, ret,
                   loopVars, events>>

\* a join that raises the joined thread's exception in the caller
JoinUnitReraising ==
    /\ stage = "join"
    /\ joined < Len(commands)
    /\ unit[joined + 1] \in {"done", "died"}
    /\ IF unit[joined + 1] = "died"
       THEN Finish("raised") /\ UNCHANGED joined
       ELSE joined' = joined + 1 /\ UNCHANGED <<pc, outcome, stage>>
    /\ UNCHANGED <<envVars, hostVars, cfgVars, op, hosts, commands, procs,
                   results, unit, started, ret, loopVars, events>>

\* run_commands_parallel's second loop: thread.join()
JoinUnit ==
    /\ stage = "join"
    /\ joined < Len(commands)
    /\ unit[joined + 1] \in {"done", "died"}
    /\ joined' = joined + 1
    /\ UNCHANGED <<envVars, hostVars, cfgVars, op, pc, outcome, stage,
                   hosts, commands, procs, results, unit, started, ret,
                   loopVars, events>>

\* run_commands_parallel returns, the multi-host call returns its mapping,
\* and the call goes on: copy's loop, copy_launch's loop, the CLI's launch
Return ==
    /\ stage = "join"
    /\ joined = Len(commands)
    /\ ret' = ZipDict(hosts, results)
    /\ IF pc = "stop" /\ op.name = "cli_launch" THEN
            /\ op' = [op EXCEPT !.command = StripComments(op.script, "#")]
            /\ pc' = IF RangeDone(0, op.copy_retries) THEN "launch" ELSE "sync"
            /\ stage' = "resolve"
            /\ UNCHANGED <<outcome, loopVars>>
       ELSE IF pc = "sync" THEN
            LET result == Append(copy_result, DOMAIN ret')
            IN  IF dirIdx < Len(copy_dirs) THEN
                    /\ copy_result' = result
                    /\ dirIdx' = dirIdx + 1
                    /\ stage' = "resolve"
                    /\ UNCHANGED <<op, pc, outcome, attempt, copy_results>>
                ELSE IF op.name = "copy" THEN
                    /\ copy_result' = result
                    /\ Finish("returned")
                    /\ UNCHANGED <<op, attempt, dirIdx, copy_results>>
                ELSE
                    /\ copy_results' = Append(copy_results, result)
                    /\ copy_result' = <<>>
                    /\ dirIdx' = 1
                    /\ attempt' = attempt + 1
                    /\ pc' = IF RangeDone(attempt + 1, op.copy_retries)
                             THEN "launch" ELSE "sync"
                    /\ stage' = "resolve"
                    /\ UNCHANGED <<op, outcome>>
       ELSE /\ Finish("returned")
            /\ UNCHANGED <<op, loopVars>>
    /\ UNCHANGED <<envVars, hostVars, cfgVars, fanVars, events>>

Next ==
    \/ CallSsh
    \/ CallLauncherSsh
    \/ CallScp
    \/ CallCopy
    \/ CallLaunch
    \/ CallCopyLaunch
    \/ CallCheck
    \/ CallStop
    \/ CliLaunch
    \/ SetProject
    \/ ListIps
    \/ StartUnit
    \/ \E i \in 1..Len(unit) : UnitRun(i)
    \/ JoinUnit
    \/ Return

Spec == Init /\ [][Next]_vars

\* ------------------------------------------------------------- properties

\* the most recent fan-out of the call has returned its mapping
Returned == stage \in {"none", "resolve"} /\ commands # <<>>

\* the host's shell has run a command of the call
Delivered(ip) == received[ip] # None

\* the workers of the pod
PodIPs == {pod.ips[i] : i \in 1..Len(pod.ips)}

\* how many fan-outs of the kind were issued
Issued(kind) == Cardinality({i \in 1..Len(events) : events[i] = kind})

\* C1: a multi-host call returns a mapping with exactly one entry for each
\* resolved host, n entries for n hosts, whether a host's command left a
\* result or not; the entry is the host's result slot.
C1_OneEntryPerHost ==
    Returned =>
        /\ DOMAIN ret = {hosts[i] : i \in 1..Len(hosts)}
        /\ Cardinality(DOMAIN ret) = Len(hosts)
        /\ \A i \in 1..Len(hosts) : ret[hosts[i]] = results[i]

\* a call over two hosts returned two entries although the first host's
\* subprocess could not be created and the second's command exited nonzero
C1_Witness ==
    /\ Returned
    /\ Len(hosts) = 2
    /\ unit[1] = "died"
    /\ unit[2] = "done" /\ procs[2].exit # 0
    /\ Cardinality(DOMAIN ret) = 2

\* C2: when describe yields no external address, or the pod does not exist,
\* the call ends in a resolution failure: once list_ips has run the call has
\* raised, no host list and no per-host command was built, none was run.
C2_NoAddressIsResolutionFailure ==
    (pod.ips = <<>> /\ op.name \notin {"none", "set_project"}
                    /\ stage # "resolve") =>
        /\ outcome = "raised"
        /\ hosts = <<>> /\ commands = <<>>

\* a call on a pod without addresses has returned a mapping for the one host
\* 'user@', whose command was run
C2_BogusHost ==
    /\ pod.exists /\ pod.ips = <<>>
    /\ outcome = "returned"
    /\ hosts = << <<user, "@">> >>
    /\ unit[1] = "done" /\ procs[1].invoked
    /\ DOMAIN ret = {<<user, "@">>}

\* C3: copy_launch with copy_retries = r issues one sync fan-out per
\* configured directory pair in each of exactly r attempts, each attempt
\* appending one entry to copy_results, and issues exactly one launch, after
\* the last attempt has returned; it returns only after that launch.
C3_SyncsThenOneLaunch ==
    op.name \in {"copy_launch", "cli_launch"} =>
        /\ Issued("launch") <= 1
        /\ Len(copy_results) = attempt
        /\ attempt <= op.copy_retries
        /\ Issued("launch") = 1 =>
              /\ Last(events) = "launch"
              /\ Len(copy_results) = op.copy_retries
              /\ Issued("sync") = op.copy_retries * Len(copy_dirs)
        /\ outcome = "returned" => Issued("launch") = 1

\* copy_launch with two retries has returned although no sync attempt
\* reached one of the pod's workers
C3_Witness ==
    /\ op.name = "copy_launch"
    /\ op.copy_retries >= 2
    /\ outcome = "returned"
    /\ Len(copy_results) = op.copy_retries
    /\ \E ip \in PodIPs : dirs[ip] = {}

\* C4: when copy_launch's launch step is about to run, a stop was issued
\* first and the session of the given name is absent on every host of the
\* pod.
C4_CopyLaunchStopsFirst ==
    (op.name = "copy_launch" /\ pc = "launch" /\ stage = "resolve") =>
        /\ Issued("stop") >= 1
        /\ \A ip \in PodIPs : ~HasSession(tmux[ip], op.window_name)

\* copy_launch's launch step is about to run after its sync attempts; no stop
\* was issued and a host of the pod still holds the session of the given name
C4_SessionStillThere ==
    /\ op.name = "copy_launch" /\ pc = "launch" /\ stage = "resolve"
    /\ attempt = op.copy_retries /\ attempt >= 1
    /\ Issued("stop") = 0
    /\ \E ip \in PodIPs : HasSession(tmux[ip], op.window_name)

\* What the code does about C4: copy_launch itself issues no stop.  The CLI's
\* launch issues the stop of the session 'launch' as its first fan-out and
\* never again, before copy_launch's first sync attempt; when the launch step
\* is about to run the session 'launch' is absent on every host whose shell
\* ran the stop command.
CliStopsBeforeFirstSync ==
    /\ op.name = "copy_launch" => Issued("stop") = 0
    /\ (op.name = "cli_launch" /\ events # <<>>) =>
          /\ events[1] = "stop"
          /\ Issued("stop") = 1
          /\ op.window_name = default_window_name
    /\ (op.name = "cli_launch" /\ pc = "launch" /\ stage = "resolve") =>
          \A ip \in IPs :
              Delivered(ip) => ~HasSession(tmux[ip], default_window_name)

\* the CLI's launch is about to run its launch step; on some host the stop
\* command killed the session 'launch', which is now absent
CliStopsBeforeFirstSync_Witness ==
    /\ op.name = "cli_launch" /\ pc = "launch" /\ stage = "resolve"
    /\ Issued("sync") = default_copy_retries * Len(copy_dirs)
    /\ \E ip \in IPs :
          /\ Delivered(ip)
          /\ Len(rlog[ip]) >= 2 /\ rlog[ip][2].ok
          /\ ~HasSession(tmux[ip], default_window_name)

\* C5: stop does not raise once a host's shell has run its command, and it
\* is one remote-execute fan-out; on each such host the shell ran, in one
\* delivered string, kill-session and then every auxiliary kill command in
\* the configured order, also when kill-session failed for want of a session.
C5_StopRunsEveryKillCommand ==
    op.name = "stop" =>
        /\ Issued("stop") <= 1
        /\ \A ip \in IPs :
              Delivered(ip) =>
                  /\ outcome # "raised"
                  /\ Len(rlog[ip]) = 2 + Len(kill_commands)
                  /\ rlog[ip][2].cmd =
                        <<"tmux", SP, "kill-session", SP, "-t", SP>>
                            \o op.window_name
                  /\ \A k \in 1..Len(kill_commands) :
                        rlog[ip][2 + k].cmd = kill_commands[k]

\* stop has returned; on some host kill-session failed, there being no such
\* session, and the auxiliary kill commands ran after it
C5_Witness ==
    /\ op.name = "stop" /\ outcome = "returned"
    /\ \E ip \in IPs :
          /\ Delivered(ip)
          /\ Len(rlog[ip]) = 2 + Len(kill_commands)
          /\ ~rlog[ip][2].ok
          /\ rlog[ip][Len(rlog[ip])].cmd = kill_commands[Len(kill_commands)]

C7_KeystrokesIntoNamedSession ==
    op.name = "launch" =>
        \A ip \in IPs :
            (Delivered(ip) /\ Len(rlog[ip]) >= 2 /\ rlog[ip][2].ok) =>
                /\ HasSession(tmux[ip], op.window_name)
                /\ SessionOf(tmux[ip], op.window_name).keys =
                      <<ProjectSshCommand(op.command), <<"C-m">> >>

\* launch has returned; the session it created holds the user command
\* without its indentation
C7_DedentedKeys ==
    /\ op.name = "launch" /\ outcome = "returned"
    /\ op.command = <<SP, "a">>
    /\ \E ip \in PodIPs :
          /\ Delivered(ip) /\ rlog[ip][2].ok
          /\ SessionOf(tmux[ip], op.window_name).keys =
                << <<"cd", SP>> \o working_dir \o <<NL, "a">>, <<"C-m">> >>

\* C8: the local shell takes each command line a TPUPodClient.ssh builds, that
\* of tpu_pod_launcher.py and that of launcher.py, as ssh with one last
\* argument, the command TPUPodProject.ssh handed over, and every host
\* reached receives exactly that string.
C8_CommandDeliveredLiterally ==
    op.name \in {"ssh", "launcher_ssh"} =>
        /\ \A i \in 1..Len(commands) :
              LET parsed == ShParse(commands[i])
              IN  /\ parsed.ok
                  /\ Len(parsed.cmds) = 1
                  /\ Last(parsed.cmds[1]) = ProjectSshCommand(op.command)
        /\ \A ip \in IPs :
              Delivered(ip) => received[ip] = ProjectSshCommand(op.command)

\* What the code does about C8: tpu_pod_launcher.py's TPUPodClient.ssh, which
\* quotes with shlex.quote, delivers the command literally.
ShlexQuotedDelivery ==
    op.name = "ssh" =>
        /\ \A i \in 1..Len(commands) :
              LET parsed == ShParse(commands[i])
              IN  /\ parsed.ok
                  /\ Len(parsed.cmds) = 1
                  /\ Last(parsed.cmds[1]) = ProjectSshCommand(op.command)
        /\ \A ip \in IPs :
              Delivered(ip) => received[ip] = ProjectSshCommand(op.command)

\* both hosts of a pod received, through tpu_pod_launcher.py's ssh, the
\* command with a double quote, a '$' and a newline
ShlexQuotedDelivery_Witness ==
    /\ op.name = "ssh"
    /\ \E i, j, k \in 1..Len(op.command) :
          op.command[i] = DQ /\ op.command[j] = "$" /\ op.command[k] = NL
    /\ Cardinality(PodIPs) = 2
    /\ \A ip \in PodIPs :
          Delivered(ip) /\ received[ip] = ProjectSshCommand(op.command)

\* launcher.py's ssh was given the command with a double quote, a '$' and a
\* newline; the host received another string
C8_Reinterpreted ==
    /\ op.name = "launcher_ssh"
    /\ \E ip \in PodIPs :
          Delivered(ip) /\ received[ip] # ProjectSshCommand(op.command)

\* C9: a set_project without launch_config_path raises, leaves the config as
\* it was loaded and leaves the file as it was.
C9_SetProjectWithoutPathFails ==
    [][(op'.name = "set_project" /\ launch_config_path' = None) =>
          /\ outcome' = "raised"
          /\ config' = LoadConfig(launch_config_path', configFile)
          /\ configFile' = configFile
      ]_vars

\* set_project without a path has raised; the file an earlier set_project
\* wrote is still there
C9_Witness ==
    /\ op.name = "set_project"
    /\ launch_config_path = None
    /\ outcome = "raised"
    /\ config = None
    /\ configFile # None

Ended(i) == unit[i] \in {"done", "died"}

\* C11: run_commands_parallel has one unit per command, starts them in input
\* order and awaits none before all are started; a unit it has joined has
\* ended, and when it has returned every unit has ended, none is running.
C11_AllStartedThenAllJoined ==
    /\ Len(unit) = Len(commands)
    /\ started <= Len(commands) /\ joined <= started
    /\ \A i \in 1..Len(unit) : unit[i] # "new" <=> i <= started
    /\ joined > 0 => started = Len(commands)
    /\ stage = "join" => started = Len(commands)
    /\ \A i \in 1..joined : Ended(i)
    /\ Returned => joined = Len(commands) /\ \A i \in 1..Len(unit) : Ended(i)

\* both units are started, the second has ended before the first, and the
\* call waits to join the first
C11_Witness ==
    /\ stage = "join" /\ joined = 0
    /\ Len(unit) = 2
    /\ unit[1] = "running"
    /\ unit[2] = "done"

\* C12: within a call of run_commands_parallel a step changes slot i only
\* when it is the step in which unit i ends with a result, the slot was None
\* until then and holds the output of command i's subprocess from then on;
\* so a unit that has ended with a result has it in its own slot, one that
\* died has None there, and the returned list is in input order.
C12_SlotWrittenByItsUnitOnce ==
    /\ [](\A i \in 1..Len(unit) :
              /\ unit[i] = "done" => results[i] = procs[i].stdout
              /\ unit[i] \in {"new", "running", "died"} => results[i] = None)
    /\ [][stage # "resolve" =>
             \A k \in 1..Len(results) :
                 results'[k] # results[k] =>
                     /\ unit[k] = "running" /\ unit'[k] = "done"
                     /\ results[k] = None
                     /\ results'[k] = procs'[k].stdout
         ]_vars

\* a call over two hosts has returned two different outputs, each in the slot
\* of its command, the second unit having ended first or not
C12_Witness ==
    /\ Returned
    /\ Len(results) = 2
    /\ unit[1] = "done" /\ unit[2] = "done"
    /\ procs[1].exit = 0 /\ procs[2].exit # 0
    /\ results[1] = procs[1].stdout /\ results[2] = procs[2].stdout
    /\ results[1] # results[2]

\* C13: when a unit's run_command has raised, the failure reaches the caller
\* and the batch is aborted: the call does not return its result list.
C13_UnitFailureAbortsBatch ==
    (\E i \in 1..Len(unit) : unit[i] = "died") =>
        ~(Returned /\ outcome # "raised")

\* C13, what the code does: an exception of run_command ends only the thread
\* it is raised in.  A multi-host call raises only in list_ips, in the calling
\* thread, never while units are started or joined; a unit that died is
\* joined like the others, and the call returns the list with one slot per
\* command, None in the slot of the unit that died.
C13_UnitFailureStaysInItsThread ==
    /\ [](Returned =>
              /\ Len(results) = Len(commands)
              /\ joined = Len(commands)
              /\ \A i \in 1..Len(unit) :
                    /\ Ended(i)
                    /\ unit[i] = "died" => results[i] = None)
    /\ [][(outcome' = "raised" /\ outcome # "raised"
              /\ op'.name # "set_project") => stage = "resolve"
         ]_vars

\* a call over two hosts has returned although the second unit's run_command
\* raised; the first unit's output is in its slot
C13_Witness ==
    /\ Returned /\ outcome = "returned"
    /\ Len(unit) = 2
    /\ unit[2] = "died" /\ results[2] = None
    /\ unit[1] = "done" /\ results[1] = procs[1].stdout
    /\ joined = 2

\* the fan-outs of the CLI's launch, in order
CliPhases ==
    <<"stop">>
        \o [i \in 1..(default_copy_retries * Len(copy_dirs)) |-> "sync"]
        \o <<"launch">>

\* C14: the CLI's launch issues its fan-outs in the order stop, the sync
\* passes, launch.  The units that are started or running are those of the
\* fan-out issued last and run its command lines; between two fan-outs every
\* unit has ended; and until the launch fan-out is issued a host has received
\* nothing but the stop command.
C14_CliPhasesInOrder ==
    op.name = "cli_launch" =>
        /\ Len(events) <= Len(CliPhases)
        /\ events = SubSeq(CliPhases, 1, Len(events))
        /\ stage \in {"start", "join"} =>
              /\ Last(events) = pc
              /\ \A i \in 1..Len(commands) : commands[i] = CommandFor(hosts[i])
        /\ stage \notin {"start", "join"} => \A i \in 1..Len(unit) : Ended(i)
        /\ Issued("launch") = 0 =>
              \A ip \in IPs :
                  Delivered(ip) =>
                      received[ip] = ProjectSshCommand(
                          StopCommand(default_window_name, kill_commands))

\* the CLI's launch has returned after all its fan-outs; both hosts of the
\* pod were synced and hold the launched session
C14_Witness ==
    /\ op.name = "cli_launch" /\ outcome = "returned"
    /\ events = CliPhases
    /\ Cardinality(PodIPs) = 2
    /\ \A ip \in PodIPs :
          /\ Delivered(ip)
          /\ dirs[ip] # {}
          /\ HasSession(tmux[ip], default_window_name)

====
